---- MODULE Spec2Model ----
(***************************************************************************)
(* nestjs-piscina: offloading of @RunWithPiscina methods of DI-managed     *)
(* providers to a Piscina worker pool.                                     *)
(*                                                                         *)
(* Main thread : RunWithPiscinaExplorer (interception at onModuleInit),    *)
(*               the stubs it installs, PiscinaService (dispatch, pool     *)
(*               shutdown).                                                *)
(* Worker side : the worker entry (token resolution by require/import) and *)
(*               executeWorkerTask (fresh application context per call).   *)
(***************************************************************************)
EXTENDS Integers, Sequences, FiniteSets, TLC

\* ------------------------------------------------------------------ bounds
MaxCalls == 2
MaxIter == 1
MaxCtx == 2
MaxThreads == 2
MaxDirect == 2
MaxDepth == 3
MaxScans == 2

CallIds == 1..MaxCalls
Threads == 1..MaxThreads
CtxObjs == 1..MaxCtx

NoValue == [t |-> "none"]
NoError == [kind |-> "none", name |-> "none"]

\* ------------------------------------------------------------------ values
\* JavaScript values that cross the thread boundary.  A request context object
\* carries its enumerable content (requestId) and the hidden, symbol-keyed
\* REQUEST_CONTEXT_ID field (ctxId, 0 when absent).
Num(n) == [t |-> "num", v |-> n]
Str(n) == [t |-> "str", v |-> n]
CtxObject(r, id) == [t |-> "obj", requestId |-> r, ctxId |-> id]

Undefined == [t |-> "undefined"]

TypeofObject(v) == v.t = "obj"

\* args[i] of a JavaScript argument list (undefined past its end) and the rest
\* parameter after the first argument.
Arg(args, i) == IF i <= Len(args) THEN args[i] ELSE Undefined
Rest(args) == IF Len(args) = 0 THEN <<>> ELSE Tail(args)

\* Piscina posts the task and its result by structured clone: own enumerable
\* string-keyed properties are copied, the symbol-keyed non-enumerable
\* REQUEST_CONTEXT_ID is not.
StructuredClone(v) == IF v.t = "obj" THEN CtxObject(v.requestId, 0) ELSE v

CloneArgs(args) == [i \in 1..Len(args) |-> StructuredClone(args[i])]

\* ------------------------------------------------------------------ the application
\* Modules of the applications analysed.  ExampleModule is the test module;
\* FeatureModule / ConfigModule are the README's "Global Modules" case;
\* ReportModule hosts a provider that inherits its marked method from a base
\* class of another file; ScriptModule and its provider are declared by code
\* that has no file name (the decorators find no caller file).  AppModule /
\* ImageModule are the image-processing example, whose resize calls another
\* marked method of the same provider.
ModuleNames == {"PiscinaModule", "ExampleModule", "ConfigModule", "FeatureModule",
                "ReportModule", "ScriptModule", "AppModule", "ImageModule",
                "AliasModule"}

\* Modules declared global in the main application.
GlobalModules == {"PiscinaModule", "ConfigModule"}

VARIABLES
    cfg,        \* the application under analysis: its modules, decorators and imports
    initState,  \* RunWithPiscinaExplorer.onModuleInit: "pending" | "done" | "failed"
    initError,  \* the error onModuleInit threw
    stubs,      \* per marked method: the stub installed by patchMethod (or none)
    pools,      \* the two Piscina instances built at startup: "alive" | "destroyed"
    shutdown,   \* PiscinaService.onModuleDestroy has completed
    calls,      \* main thread: the calls made so far and their promises
    tasks,      \* pool / worker side of each call
    mainCtxId,  \* hidden REQUEST_CONTEXT_ID of each caller-side context object
    touched,    \* per provider instance (main thread and workers): the executions of
                \* decorated method bodies it received, standing for the fields such
                \* a body may write
    host,       \* the host project as the worker path factory finds it
    workerPath, \* WORKER_PATH_PROVIDER: not yet resolved, a path, or the error thrown
    decoration, \* a decorator being applied: the call stack and the decorator's file
    origin,     \* what callerFile returned for it ("pending" before it ran)
    scans       \* the runs of RunWithPiscinaExplorer.onModuleInit so far

startupVars == <<host, workerPath, decoration, origin>>
vars == <<cfg, initState, initError, stubs, pools, shutdown, calls, tasks,
          mainCtxId, touched, host, workerPath, decoration, origin, scans>>

\* The modules of the application that is started.
AppModules ==
    CASE cfg.app = "example" -> {"PiscinaModule", "ExampleModule"}
      [] cfg.app = "feature" -> {"PiscinaModule", "ConfigModule", "FeatureModule"}
      [] cfg.app = "report" -> {"PiscinaModule", "ReportModule"}
      [] cfg.app = "script" -> {"PiscinaModule", "ScriptModule"}
      [] cfg.app = "image" -> {"PiscinaModule", "AppModule", "ImageModule"}
      [] cfg.app = "alias" -> {"PiscinaModule", "ExampleModule", "AliasModule"}

\* Import lists of the modules (the @Module({imports}) metadata).
Imports(m) ==
    CASE m = "ExampleModule" -> {"PiscinaModule"}
      [] m = "ReportModule" -> {"PiscinaModule"}
      [] m = "ScriptModule" -> {"PiscinaModule"}
      [] m = "AliasModule" -> {"PiscinaModule"}
      [] m = "AppModule" -> {"PiscinaModule", "ImageModule"}
      [] m = "ImageModule" ->
            IF cfg.imageImportsPiscina THEN {"PiscinaModule"} ELSE {}
      [] m = "FeatureModule" ->
            IF cfg.featureImportsConfig THEN {"PiscinaModule", "ConfigModule"}
                                        ELSE {"PiscinaModule"}
      [] OTHER -> {}

\* Provider wrappers in the order DiscoveryService.getProviders() lists them
\* (those of the started application's modules).  declaredBy is the class whose
\* file holds the decorated method declarations: the provider's own class, or a
\* base class the provider extends.  methods are the method names of the
\* instance (own and inherited), marked those carrying the decorator, fields
\* its properties holding objects.  RequestScopeAlias is a second registration
\* of the class RequestScopeExampleService ({provide, useClass}) in a module of
\* its own: its instances have the prototype of that class.
Wrappers == <<
    [token |-> "WORKER_PATH_PROVIDER", host |-> "PiscinaModule", scope |-> "DEFAULT",
     instance |-> "string", marked |-> {}, deps |-> {}, declaredBy |-> "none",
     methods |-> {"toString"}, fields |-> {}],
    [token |-> "ExampleService", host |-> "ExampleModule", scope |-> "DEFAULT",
     instance |-> "object", marked |-> {"pi"}, deps |-> {}, declaredBy |-> "ExampleService",
     methods |-> {"pi"}, fields |-> {}],
    [token |-> "RequestScopeExampleService", host |-> "ExampleModule", scope |-> "REQUEST",
     instance |-> "object", marked |-> {"pi"}, deps |-> {},
     declaredBy |-> "RequestScopeExampleService",
     methods |-> {"pi"}, fields |-> {"logger"}],
    [token |-> "ConfigService", host |-> "ConfigModule", scope |-> "DEFAULT",
     instance |-> "object", marked |-> {}, deps |-> {}, declaredBy |-> "ConfigService",
     methods |-> {"get"}, fields |-> {}],
    [token |-> "ComputeService", host |-> "FeatureModule", scope |-> "DEFAULT",
     instance |-> "object", marked |-> {"calculateFactorial"}, deps |-> {"ConfigService"},
     declaredBy |-> "ComputeService",
     methods |-> {"calculateFactorial"}, fields |-> {}],
    [token |-> "ReportService", host |-> "ReportModule", scope |-> "DEFAULT",
     instance |-> "object", marked |-> {"pi"}, deps |-> {}, declaredBy |-> "BaseService",
     methods |-> {"pi"}, fields |-> {}],
    [token |-> "ScriptService", host |-> "ScriptModule", scope |-> "DEFAULT",
     instance |-> "object", marked |-> {"pi"}, deps |-> {}, declaredBy |-> "ScriptService",
     methods |-> {"pi"}, fields |-> {}],
    [token |-> "ImageService", host |-> "ImageModule", scope |-> "DEFAULT",
     instance |-> "object", marked |-> {"getMetadata", "resize"}, deps |-> {},
     declaredBy |-> "ImageService",
     methods |-> {"getMetadata", "resize"}, fields |-> {"logger"}],
    [token |-> "MyService", host |-> "AppModule", scope |-> "DEFAULT",
     instance |-> "object", marked |-> {}, deps |-> {}, declaredBy |-> "MyService",
     methods |-> {"getPoolStats"}, fields |-> {"piscina"}],
    [token |-> "RequestScopeAlias", host |-> "AliasModule", scope |-> "REQUEST",
     instance |-> "object", marked |-> {"pi"}, deps |-> {},
     declaredBy |-> "RequestScopeExampleService",
     methods |-> {"pi"}, fields |-> {"logger"}]
>>

WrapperIds == 1..Len(Wrappers)

\* instance.constructor.name: the class the wrapper's instances are built from.
ConstructorName(token) ==
    IF token = "RequestScopeAlias" THEN "RequestScopeExampleService" ELSE token
WrapperOf(token) == CHOOSE i \in WrapperIds : Wrappers[i].token = token

\* The providers of the started application.
InApp(w) == w.host \in AppModules

\* The methods of the providers.
Methods == UNION {{<<Wrappers[i].token, m>> : m \in Wrappers[i].methods} : i \in WrapperIds}

\* The methods carrying the PISCINA_META Offload Descriptor.
Marked == UNION {{<<Wrappers[i].token, m>> : m \in Wrappers[i].marked} : i \in WrapperIds}

\* ------------------------------------------------------------------ worker path
\* What the factory of WORKER_PATH_PROVIDER reads.  pkg is package.json in the
\* working directory: absent, declaring type "module", declaring type
\* "commonjs", declaring no type, or unreadable (reading or parsing it throws).
\* moduleDefined: typeof module # "undefined".  typescript: __filename ends
\* with ".ts".  files: the worker entry files present next to the factory.
WorkerNames == {"run-with-piscina.worker", "run-with-piscina.worker.cjs"}
WorkerFiles == WorkerNames \X {"ts", "js"}
Hosts == [pkg : {"absent", "module", "commonjs", "untyped", "unreadable"},
          moduleDefined : BOOLEAN, typescript : BOOLEAN, files : SUBSET WorkerFiles]

\* let isESM = false; try { if (existsSync) isESM = packageJson.type === "module" }
\* catch { isESM = typeof module === "undefined" }
IsESM(h) ==
    IF h.pkg = "unreadable" THEN ~h.moduleDefined ELSE h.pkg = "module"

\* const workerName = isESM ? "run-with-piscina.worker" : "run-with-piscina.worker.cjs"
AlwaysCommonJS(isESM) == "run-with-piscina.worker.cjs"
WorkerName(isESM) ==
    IF isESM THEN "run-with-piscina.worker" ELSE "run-with-piscina.worker.cjs"

Unresolved == [state |-> "pending"]

\* useFactory of WorkerPathProvider: the path when the file exists, else the
\* error 'Worker file not found: <path>'.
WorkerPathFactory(h) ==
    LET extension == IF h.typescript THEN "ts" ELSE "js"
        file == <<WorkerName(IsESM(h)), extension>>
    IN IF file \in h.files
       THEN [state |-> "resolved", path |-> file]
       ELSE [state |-> "failed", error |-> "Worker file not found", path |-> file]

\* The host of the repository's own tests: TypeScript sources, all entry files
\* present, package.json without a type.
TestHost == [pkg |-> "untyped", moduleDefined |-> TRUE, typescript |-> TRUE,
             files |-> WorkerFiles]

\* ------------------------------------------------------------------ decorators
\* File each class is defined in and exported from under its own name; "null"
\* for a class declared by code without a file name (getFileName() gives null).
SourceFile(name) ==
    CASE name = "ExampleService" -> "example.service"
      [] name = "RequestScopeExampleService" -> "request-scope-example.service"
      [] name = "ExampleModule" -> "example.module"
      [] name = "ComputeService" -> "compute.service"
      [] name = "FeatureModule" -> "feature.module"
      [] name = "ConfigService" -> "config.service"
      [] name = "ConfigModule" -> "config.module"
      [] name = "ReportService" -> "report.service"
      [] name = "BaseService" -> "base.service"
      [] name = "ReportModule" -> "report.module"
      [] name = "ScriptService" -> "null"
      [] name = "ScriptModule" -> "null"
      [] name = "ImageService" -> "image.service"
      [] name = "ImageModule" -> "image.module"
      [] name = "AliasModule" -> "alias.module"
      [] name = "AppModule" -> "app.module"
      [] name = "MyService" -> "my.service"
      [] OTHER -> "nestjs-piscina"

\* callerFile(callerFilename): the file of the first stack frame that has a file
\* other than common.ts itself and the calling decorator's file; undefined when
\* no frame has one.
CommonFile == "common"

\* if (file && file !== __filename && file !== callerFilename)
ExternalToEncoder(file, callerFilename) == file # "null" /\ file # CommonFile
External(file, callerFilename) ==
    file # "null" /\ file # CommonFile /\ file # callerFilename

RECURSIVE CallerFile(_, _)
CallerFile(stack, callerFilename) ==
    IF stack = <<>> THEN "undefined"
    ELSE IF External(Head(stack), callerFilename)
         THEN Head(stack)
         ELSE CallerFile(Tail(stack), callerFilename)

\* The call stack when a decorator factory runs: callerFile, the decorator
\* factory, the code applying the decorator.
DecorationStack(decoratorFile, site) == <<CommonFile, decoratorFile, site>>

\* The decoration of ExampleService.pi, as the test application's files make it.
TestDecoration ==
    [stack |-> DecorationStack("run-with-piscina.decorator", "example.service"),
     callerFilename |-> "run-with-piscina.decorator"]

\* @RunWithPiscina(): SetMetadata(PISCINA_META, {filename: callerFile(...)}) on the
\* method; the decorator runs where the method is declared.
RunWithPiscina(token, m) ==
    IF <<token, m>> \in Marked
    THEN [present |-> TRUE,
          filename |-> CallerFile(
              DecorationStack("run-with-piscina.decorator",
                              SourceFile(Wrappers[WrapperOf(token)].declaredBy)),
              "run-with-piscina.decorator")]
    ELSE [present |-> FALSE, filename |-> "undefined"]

\* @PiscinaEnabled(): the same metadata on the module class.
PiscinaEnabled(module) ==
    IF \/ module \in {"ExampleModule", "ReportModule", "ScriptModule", "ImageModule",
                      "AliasModule"}
       \/ (module = "FeatureModule" /\ cfg.featureEnabled)
    THEN [present |-> TRUE,
          filename |-> CallerFile(
              DecorationStack("piscina-enabled.decorator", SourceFile(module)),
              "piscina-enabled.decorator")]
    ELSE [present |-> FALSE, filename |-> "undefined"]

\* ------------------------------------------------------------------ interception
NoStub == [target |-> "none"]

\* wrapper.isDependencyTreeStatic(): a REQUEST-scoped provider, or one that
\* depends on such a provider, is not tree-static.
RECURSIVE IsDependencyTreeStatic(_)
IsDependencyTreeStatic(w) ==
    /\ w.scope # "REQUEST"
    /\ \A d \in w.deps : IsDependencyTreeStatic(Wrappers[WrapperOf(d)])

\* Where patchMethod installs the stub: on the prototype for a request-scoped
\* provider (all per-request instances inherit it), on the instance otherwise.
PatchTargetInstanceOnly(w) == "own"
PatchTarget(w) == IF ~IsDependencyTreeStatic(w) THEN "proto" ELSE "own"

\* The marker check of patchMethod.
MarkerCheckSkipped(meta) == FALSE
MarkerMissing(meta) == ~meta.present

\* The property patchMethod assigns: the method of the class prototype, shared
\* by every wrapper of the class, or the method of the wrapper's own instance.
Slot(w, methodName) ==
    IF PatchTarget(w) = "proto" THEN <<ConstructorName(w.token), methodName>>
    ELSE <<w.token, methodName>>

\* The functions patchMethod has assigned to a property so far: each
\* assignment is a function newly made, and none keeps or calls the one it
\* replaces.
Patches(s) == IF s = NoStub THEN 0 ELSE s.patches

\* patchMethod(wrapper, providerFilename, methodName) on the scan state st.
PatchMethod(st, w, providerFilename, methodName) ==
    LET meta == PiscinaEnabled(w.host) IN
    IF MarkerMissing(meta)
    THEN [st EXCEPT !.state = "failed",
                    !.error = [kind |-> "NoPiscinaEnabled", name |-> w.host]]
    ELSE [st EXCEPT !.stubs[Slot(w, methodName)] =
            [target |-> PatchTarget(w),
             requestScoped |-> ~IsDependencyTreeStatic(w),
             providerIdentifier |-> [filename |-> providerFilename,
                                     tokenName |-> ConstructorName(w.token)],
             moduleIdentifier |-> [filename |-> meta.filename, tokenName |-> w.host],
             methodName |-> methodName,
             patches |-> Patches(@) + 1]]

\* JavaScript property lookup of instance[methodName] on the main thread:
\* an own property first, then the prototype of the instance's class.
\* perRequest: the instance is a per-request instance (not the wrapper's own
\* instance object).
Lookup(stubMap, token, m, perRequest) ==
    LET own == stubMap[<<token, m>>]
        proto == stubMap[<<ConstructorName(token), m>>]
    IN IF own.target = "own" /\ ~perRequest THEN own
       ELSE IF proto.target = "proto" THEN proto
       ELSE NoStub

\* reflector.get(PISCINA_META, instance[methodName]): the descriptor of the
\* function the property holds now.  SetMetadata put it on the original
\* method; a stub is another function and carries none.
Undecorated == [present |-> FALSE, filename |-> "undefined"]
MetaOfOriginal(slot, token, m) == RunWithPiscina(token, m)
MetaOfCurrent(slot, token, m) ==
    IF slot = NoStub THEN RunWithPiscina(token, m) ELSE Undecorated

\* if (!meta) return; -- a method without the descriptor is skipped.
DescriptorAssumed(meta) == TRUE
HasDescriptor(meta) == meta.present

\* scanProvider(wrapper): every method name whose current function carries the
\* descriptor is patched; a throw of patchMethod ends the scan.
RECURSIVE ScanMethods(_, _, _)
ScanMethods(st, w, ms) ==
    IF ms = {} \/ st.state = "failed" THEN st
    ELSE LET m == CHOOSE x \in ms : TRUE
             slot == Lookup(st.stubs, w.token, m, FALSE)
             meta == MetaOfCurrent(slot, w.token, m)
         IN ScanMethods(IF HasDescriptor(meta) THEN PatchMethod(st, w, meta.filename, m)
                        ELSE st,
                        w, ms \ {m})

ScanProvider(st, w) == ScanMethods(st, w, w.methods)

\* onModuleInit(): the loop over the providers, skipping wrappers whose instance
\* is not an object.
RECURSIVE ScanFrom(_, _)
ScanFrom(i, st) ==
    IF st.state = "failed" THEN st
    ELSE IF i > Len(Wrappers) THEN [st EXCEPT !.state = "done"]
    ELSE IF ~InApp(Wrappers[i]) THEN ScanFrom(i + 1, st)
    ELSE IF Wrappers[i].instance # "object" THEN ScanFrom(i + 1, st)
    ELSE ScanFrom(i + 1, ScanProvider(st, Wrappers[i]))

\* if (!isMainThread) return; -- the first statement of onModuleInit.
NoThreadGuard(isMainThread) == FALSE
ReturnsBeforeScan(isMainThread) == ~isMainThread

OnModuleInit ==
    /\ initState = "pending"
    /\ \E st \in {IF ReturnsBeforeScan(TRUE)
                   THEN [state |-> "done", error |-> NoError, stubs |-> stubs]
                   ELSE ScanFrom(1, [state |-> "pending", error |-> NoError,
                                     stubs |-> stubs])} :
          /\ initState' = st.state
          /\ initError' = st.error
          /\ stubs' = st.stubs
    /\ scans' = scans + 1
    /\ UNCHANGED <<cfg, pools, shutdown, calls, tasks, mainCtxId, touched>>
    /\ UNCHANGED startupVars

\* onModuleInit() run once more on the explorer of a started application: the
\* same loop, over the providers as the runs before left them.
OnModuleInitAgain ==
    /\ initState = "done"
    /\ scans < MaxScans
    /\ \E st \in {IF ReturnsBeforeScan(TRUE)
                   THEN [state |-> "done", error |-> NoError, stubs |-> stubs]
                   ELSE ScanFrom(1, [state |-> "pending", error |-> NoError,
                                     stubs |-> stubs])} :
          /\ initState' = st.state
          /\ initError' = st.error
          /\ stubs' = st.stubs
    /\ scans' = scans + 1
    /\ UNCHANGED <<cfg, pools, shutdown, calls, tasks, mainCtxId, touched>>
    /\ UNCHANGED startupVars

\* ------------------------------------------------------------------ method bodies
\* The Leibniz sum of ExampleService.pi / RequestScopeExampleService.pi, in
\* thousandths (the body computes in floating point).
RECURSIVE PiSum(_)
PiSum(iterations) ==
    IF iterations <= 0 THEN 0
    ELSE LET i == iterations - 1
             term == (4 * 1000) \div (2 * i + 1)
         IN PiSum(i) + (IF i % 2 = 0 THEN term ELSE 0 - term)

\* calculateFactorial's loop.
RECURSIVE Factorial(_)
Factorial(n) == IF n <= 1 THEN 1 ELSE n * Factorial(n - 1)

\* The loop bound a body reads from an argument: `i < x` is false for every i
\* when x is not a number.
ToNumber(v) == IF v.t = "num" THEN v.v ELSE 0

Return(v) == [kind |-> "return", v |-> v]
Throw(msg) == [kind |-> "throw", v |-> Str(msg)]

\* An error raised outside a method body (by the worker entry, the DI runtime or
\* the pool).
Failure(error) == [kind |-> "throw", v |-> error]

\* The original method bodies.  args is the argument list the body is invoked
\* with; every decorated example body first refuses to run on the main thread.
\* getPoolStats reads the queue size of the PISCINA_POOL handle, a pool no
\* task is submitted to.
MethodBody(token, m, args, isMainThread) ==
    IF token = "MyService" /\ m = "getPoolStats" THEN Return(Num(0))
    ELSE IF isMainThread THEN Throw("This method should be run in a worker thread")
    ELSE CASE token = "ExampleService" /\ m = "pi" ->
                Return(Num(PiSum(ToNumber(Arg(args, 1)))))
           [] token = "RequestScopeExampleService" /\ m = "pi" ->
                Return(Num(PiSum(ToNumber(Arg(args, 2)))))
           [] token \in {"ReportService", "ScriptService"} /\ m = "pi" ->
                Return(Num(PiSum(ToNumber(Arg(args, 1)))))
           [] token = "ImageService" /\ m \in {"getMetadata", "resize"} ->
                \* an image stands for its size; resize returns the metadata
                \* getMetadata gives for the output buffer
                Return(Num(ToNumber(Arg(args, 1))))
           [] token = "ComputeService" /\ m = "calculateFactorial" ->
                IF ToNumber(Arg(args, 1)) < 0
                THEN Throw("Factorial is not defined for negative numbers")
                ELSE Return(Str(Factorial(ToNumber(Arg(args, 1)))))
           [] OTHER -> Throw("not a function")

\* ------------------------------------------------------------------ dispatch
NoEnvelope == [methodName |-> "none"]

\* submitted counts the pool.run calls made for the call, pool is the Piscina
\* instance they went to, poolEvent what became of a pool-level 'error' event.
\* nestedLocal / nestedDispatched count the calls the body made to marked
\* methods of its own provider: those that ran the original body in the worker
\* and those that went to a pool from inside the worker.  workerPools are the
\* Piscina instances alive inside the worker that were built for the call's
\* application context, ranOn the thread the body ran on, scope the worker's
\* classification of the provider ("static" or "request").
NoTask == [state |-> "none", thread |-> 0, envelope |-> NoEnvelope, app |-> "none",
           bodyRan |-> FALSE, bodyArgs |-> <<>>, instance |-> <<"none", 0>>,
           contextId |-> 0, observed |-> 0, outcome |-> Return(NoValue),
           submitted |-> 0, pool |-> "none", poolEvent |-> "none",
           nestedLocal |-> 0, nestedDispatched |-> 0, workerPools |-> {}, ranOn |-> 0,
           scope |-> "none"]

\* The pool PiscinaService.runFunction submits to, and the one onModuleDestroy
\* destroys: PiscinaService.pool in both.
InjectedPool == "injected"
DispatchPool == "service"
DestroyedPool == "service"

\* this.pool.run(args, ...) on a pool in the given state: a live pool takes the
\* task.  PiscinaService keeps no flag of its own after onModuleDestroy, so what
\* run() does on a destroyed pool is the pool library's answer: the task is
\* refused, or threads are started again for it.
PoolAccepts(state) == IF state = "alive" THEN {TRUE} ELSE {TRUE, FALSE}

\* ContextIdFactory.getByRequest(contextArg): the id already attached to the
\* object, else a new one.
GetByRequestAlwaysNew(contextArg, fresh) == fresh
GetByRequest(contextArg, fresh) == IF contextArg.ctxId # 0 THEN contextArg.ctxId ELSE fresh

\* The request-scoped stub's context id: derived from (and attached to) an
\* object argument, created otherwise.
StubContextId(contextArg, fresh) ==
    IF TypeofObject(contextArg) THEN GetByRequest(contextArg, fresh) ELSE fresh

\* ContextIdFactory.create() on the main thread during call number c: an id no
\* earlier call received.
FreshContextId(c) == MaxCtx + c

\* Object.defineProperty(contextArg, REQUEST_CONTEXT_ID, {value: contextId,
\* enumerable: false, configurable: false, writable: false}): a TypeError when
\* the field is already there with another value, no change when it is there
\* with the same value.
DefineThrows(contextArg, contextId) ==
    TypeofObject(contextArg) /\ contextArg.ctxId # 0 /\ contextArg.ctxId # contextId
DefineContextId(contextArg, contextId) ==
    IF TypeofObject(contextArg) /\ contextArg.ctxId = 0
    THEN [contextArg EXCEPT !.ctxId = contextId] ELSE contextArg

\* workerFunction's catch after a rejected pool.run: the error is logged and
\* thrown; runFunction is not called a second time for the call.
ResubmittedOnce(task) ==
    IF task.submitted < 2
    THEN [task EXCEPT !.state = "queued", !.thread = 0, !.submitted = @ + 1]
    ELSE task
AfterRejection(task) == task

\* The argument list the request-scoped stub forwards:
\* workerFunction.call(contextInstance, contextArg, ...args).
StubForwardDropsContext(contextArg, rest) == rest
StubForward(contextArg, rest) == <<contextArg>> \o rest

\* The envelope workerFunction builds for a call of the stub s.
EnvelopeWithoutArgs(s, args) ==
    [moduleIdentifier |-> s.moduleIdentifier,
     providerIdentifier |-> s.providerIdentifier,
     methodName |-> s.methodName,
     args |-> <<>>]
EnvelopeIdentifiersSwapped(s, args) ==
    [moduleIdentifier |-> s.providerIdentifier,
     providerIdentifier |-> s.moduleIdentifier,
     methodName |-> s.methodName,
     args |-> args]
Envelope(s, args) ==
    [moduleIdentifier |-> s.moduleIdentifier,
     providerIdentifier |-> s.providerIdentifier,
     methodName |-> s.methodName,
     args |-> args]

\* Argument lists the callers use.  The context object k has requestId k.
ArgChoices(token) ==
    CASE token = "ExampleService" -> {<<Num(n)>> : n \in {0, MaxIter}}
      [] token \in {"RequestScopeExampleService", "RequestScopeAlias"} ->
            {<<CtxObject(k, mainCtxId[k]), Num(MaxIter)>> : k \in CtxObjs}
      [] token = "ComputeService" -> {<<Num(n)>> : n \in {0 - 1, MaxIter}}
      [] token \in {"ReportService", "ScriptService", "ImageService"} -> {<<Num(MaxIter)>>}
      [] token = "MyService" -> {<<>>}
      [] OTHER -> {}

\* The provider's instances that live on the main thread.
MainInstance(token) == <<"main", WrapperOf(token)>>
MainInstances == {"main"} \X WrapperIds

\* A call instance[m](...args) made on the main thread, on the provider's
\* instance (static) or on a per-request instance (request-scoped).
Call(token, m, args) ==
    /\ initState # "pending"
    /\ InApp(Wrappers[WrapperOf(token)])
    /\ Len(calls) < MaxCalls
    /\ LET w == Wrappers[WrapperOf(token)]
           c == Len(calls) + 1
           s == Lookup(stubs, token, m, ~IsDependencyTreeStatic(w))
           base == [token |-> token, method |-> m, args |-> args, via |-> "pool",
                    status |-> "pending", value |-> NoValue, error |-> NoError,
                    logged |-> FALSE, afterShutdown |-> shutdown,
                    envelope |-> NoEnvelope, contextId |-> 0]
       IN IF s = NoStub
          THEN \* the original body runs in the calling thread
               LET out == MethodBody(ConstructorName(token), m, args, TRUE) IN
               /\ calls' = Append(calls,
                      [base EXCEPT !.via = IF <<token, m>> \in Marked
                                          THEN "local" ELSE "unmarked",
                                   !.status = IF out.kind = "return" THEN "resolved" ELSE "rejected",
                                   !.value = IF out.kind = "return" THEN out.v ELSE NoValue,
                                   !.error = IF out.kind = "throw"
                                             THEN [kind |-> "user", name |-> out.v.v]
                                             ELSE NoError])
               /\ touched' = IF <<token, m>> \in Marked
                             THEN [touched EXCEPT ![MainInstance(token)] = @ + 1]
                             ELSE touched
               /\ UNCHANGED <<tasks, mainCtxId>>
          ELSE LET contextArg == Arg(args, 1)
                   contextId == StubContextId(contextArg, FreshContextId(c))
                   sent == IF s.requestScoped
                           THEN StubForward(DefineContextId(contextArg, contextId), Rest(args))
                           ELSE args
                   env == Envelope(s, sent)
                   seen == IF s.requestScoped
                           THEN <<DefineContextId(contextArg, contextId)>> \o Rest(args)
                           ELSE args
               IN IF s.requestScoped /\ DefineThrows(contextArg, contextId)
                  THEN \* the stub throws before it reaches workerFunction
                       /\ calls' = Append(calls,
                              [base EXCEPT !.status = "rejected", !.contextId = contextId,
                                           !.error = [kind |-> "TypeError",
                                                      name |-> "Cannot redefine property"]])
                       /\ UNCHANGED <<tasks, mainCtxId, touched>>
                  ELSE
                  /\ mainCtxId' = IF s.requestScoped /\ TypeofObject(contextArg)
                                  THEN [mainCtxId EXCEPT ![contextArg.requestId] = contextId]
                                  ELSE mainCtxId
                  /\ \E accepted \in PoolAccepts(pools[DispatchPool]) :
                     LET sentCall == [base EXCEPT !.args = seen, !.envelope = env,
                                                  !.contextId = IF s.requestScoped
                                                                THEN contextId ELSE 0]
                     IN
                     IF accepted
                     THEN /\ calls' = Append(calls, sentCall)
                          /\ tasks' = [tasks EXCEPT ![c] =
                                 [NoTask EXCEPT !.state = "queued",
                                                !.submitted = 1,
                                                !.pool = DispatchPool,
                                                !.envelope = [env EXCEPT !.args = CloneArgs(env.args)]]]
                     ELSE /\ calls' = Append(calls,
                                 [sentCall EXCEPT !.status = "rejected",
                                                  !.error = [kind |-> "PoolDestroyed", name |-> DispatchPool],
                                                  !.logged = TRUE])
                          /\ tasks' = [tasks EXCEPT ![c] =
                                 AfterRejection([NoTask EXCEPT !.submitted = 1,
                                                               !.pool = DispatchPool,
                                                               !.envelope = [env EXCEPT
                                                                   !.args = CloneArgs(env.args)],
                                                               !.outcome = Failure(
                                                                   [kind |-> "PoolDestroyed",
                                                                    name |-> DispatchPool])])]
                  /\ UNCHANGED touched
    /\ UNCHANGED <<cfg, initState, initError, stubs, pools, shutdown>>
    /\ UNCHANGED <<startupVars, scans>>

\* piscinaService.runFunction(args) called by application code with an envelope
\* of its own making (the service and WorkerArgs are exported): the promise of
\* pool.run goes to the caller as it is.
RunFunction(env) ==
    /\ Len(calls) < MaxDirect
    /\ pools[DispatchPool] = "alive"
    /\ LET c == Len(calls) + 1 IN
       /\ calls' = Append(calls,
              [token |-> env.providerIdentifier.tokenName, method |-> env.methodName,
               args |-> env.args, via |-> "pool", status |-> "pending",
               value |-> NoValue, error |-> NoError, logged |-> FALSE,
               afterShutdown |-> shutdown, envelope |-> env, contextId |-> 0])
       /\ tasks' = [tasks EXCEPT ![c] =
              [NoTask EXCEPT !.state = "queued", !.submitted = 1, !.pool = DispatchPool,
                             !.envelope = [env EXCEPT !.args = CloneArgs(env.args)]]]
    /\ UNCHANGED <<cfg, initState, initError, stubs, pools, shutdown, mainCtxId, touched>>
    /\ UNCHANGED <<startupVars, scans>>

\* ------------------------------------------------------------------ worker side
ClassNames == {"ExampleService", "RequestScopeExampleService", "ComputeService",
               "ConfigService", "ExampleModule", "FeatureModule", "ConfigModule",
               "ReportService", "BaseService", "ReportModule",
               "ImageService", "ImageModule", "AppModule", "MyService",
               "AliasModule"}

\* require(identifier.filename) with no file name throws.
RequireThrows(identifier) == identifier.filename = "undefined"

\* require(identifier.filename)[identifier.tokenName] in the worker entry:
\* the named export of that file, undefined when the file has none of the name.
Require(identifier) ==
    IF \E name \in ClassNames :
          SourceFile(name) = identifier.filename /\ name = identifier.tokenName
    THEN identifier.tokenName
    ELSE "undefined"

\* The modules of the application context built from a module class: the class
\* and what it imports, transitively.
RECURSIVE ImportClosure(_)
ImportClosure(ms) ==
    LET next == ms \cup UNION {Imports(m) : m \in ms}
    IN IF next = ms THEN ms ELSE ImportClosure(next)

\* The modules of the worker's fresh context: NestFactory.createApplicationContext
\* (moduleToken) sees the owning module only, not the main application.
WholeApplication(moduleToken) == AppModules
WorkerContextModules(moduleToken) == ImportClosure({moduleToken})

\* NestFactory.createApplicationContext(moduleToken): fails when a provider of
\* the context has a dependency no module of the context provides.
CreateApplicationContext(moduleToken) ==
    LET mods == WorkerContextModules(moduleToken)
        inCtx == {i \in WrapperIds : Wrappers[i].host \in mods}
        missing == {d \in UNION {Wrappers[i].deps : i \in inCtx} :
                        Wrappers[WrapperOf(d)].host \notin mods}
    IN IF moduleToken \notin ModuleNames
       THEN [ok |-> FALSE, providers |-> {},
             error |-> [kind |-> "NotResolved", name |-> moduleToken]]
       ELSE IF missing # {}
       THEN [ok |-> FALSE, providers |-> {},
             error |-> [kind |-> "NotResolved", name |-> CHOOSE d \in missing : TRUE]]
       ELSE [ok |-> TRUE, providers |-> {Wrappers[i].token : i \in inCtx}, error |-> NoError]

\* The Piscina instances the providers of a context build when it holds
\* PiscinaModule (PiscinaService.pool and the PISCINA_POOL value, each started
\* with minThreads 1), and those still alive after app.close(), which runs the
\* onModuleDestroy hooks of the context's providers.
ContextPools(mods) ==
    IF "PiscinaModule" \in mods THEN {DispatchPool, InjectedPool} ELSE {}
AppClose(live) == live \ {DestroyedPool}

\* The methods the explorer of the worker's context has replaced by stubs when
\* the method is invoked: createApplicationContext runs onModuleInit of the
\* explorer when the context holds PiscinaModule, in a thread that is not the
\* main thread.
WorkerPatched(mods) ==
    IF ReturnsBeforeScan(FALSE) \/ "PiscinaModule" \notin mods THEN {}
    ELSE {pm \in Marked : LET w == Wrappers[WrapperOf(pm[1])] IN
                              /\ w.host \in mods
                              /\ w.instance = "object"
                              /\ PiscinaEnabled(w.host).present}

\* The marked methods a body calls on `this` (resize: await this.getMetadata(...)).
NestedCalls(token, m) ==
    IF token = "ImageService" /\ m = "resize" THEN {"getMetadata"} ELSE {}

\* discoveryService.getProviders().find((w) => w.token === providerToken)
FindsAnyWrapper(app, providerToken) == TRUE
FindsWrapper(app, providerToken) == providerToken \in app.providers

\* const isRequestScoped = !wrapper.isDependencyTreeStatic(), on the wrapper of
\* the worker's context.
ClassifiedStaticInWorker(w) == FALSE
IsRequestScopedInWorker(w) == ~IsDependencyTreeStatic(w)

\* typeof instance[name].
TypeofProperty(w, name) ==
    IF name \in w.methods THEN "function"
    ELSE IF name \in w.fields THEN "object" ELSE "undefined"

\* The value executeWorkerTask assigns to runWithPiscinaFunction.  Request
\* scope: an async arrow function, whatever methodName is.  Static scope:
\* (wrapper.instance[methodName] as Function).bind(wrapper.instance), which
\* throws a TypeError when the property is undefined or not a function.
RunWithPiscinaFunction(w, isRequestScoped, methodName) ==
    IF isRequestScoped \/ TypeofProperty(w, methodName) = "function"
    THEN [threw |-> FALSE, typeof |-> "function", error |-> NoError]
    ELSE [threw |-> TRUE, typeof |-> "undefined",
          error |-> [kind |-> "TypeError", name |-> "bind"]]

\* What happens before the method body is entered, NoError when it is entered:
\* the assignment above, the check `typeof runWithPiscinaFunction !==
\* "function"` with its error 'Method <methodName> not found in class
\* <provider>', and, in request scope, contextInstance[methodName].call(...).
MethodEntry(w, isRequestScoped, methodName) ==
    LET fn == RunWithPiscinaFunction(w, isRequestScoped, methodName) IN
    IF fn.threw THEN fn.error
    ELSE IF fn.typeof # "function"
    THEN [kind |-> "MethodNotFound", name |-> methodName]
    ELSE IF isRequestScoped /\ TypeofProperty(w, methodName) # "function"
    THEN [kind |-> "TypeError", name |-> "call"]
    ELSE NoError

\* The provider instance the method body runs on: an instance of the
\* application context created for this call.
InstanceKeptByWorker(c, t) == <<"thread", t>>
InstancePerThread(c, t) == <<"thread", t>>
InstanceOfMainThread(c, t) == <<"main", WrapperOf(calls[c].token)>>
WorkerInstance(c, t) == <<"call", c>>

\* The caller whose promise the pool settles with the outcome of task c: the
\* promise pool.run returned for that submission.
OldestPending(c) ==
    IF \E d \in 1..Len(calls) : calls[d].status = "pending"
    THEN CHOOSE d \in 1..Len(calls) :
            /\ calls[d].status = "pending"
            /\ \A e \in 1..Len(calls) : calls[e].status = "pending" => d <= e
    ELSE c
Recipient(c) == c

\* workerFunction's catch: the error is logged and thrown again.
CaughtSwallowed(error) == NoError
Rethrown(error) == error

\* The caller's promise after the pool delivered `out` (the worker function's
\* return value or the error it threw).
Settled(call, out) ==
    IF out.kind = "return"
    THEN [call EXCEPT !.status = "resolved", !.value = StructuredClone(out.v)]
    ELSE LET e == Rethrown(out.v) IN
         IF e = NoError
         THEN [call EXCEPT !.status = "resolved", !.logged = TRUE]
         ELSE [call EXCEPT !.status = "rejected", !.error = e, !.logged = TRUE]

IdleThreads == {t \in Threads : \A c \in CallIds : ~(tasks[c].state = "running" /\ tasks[c].thread = t)}

\* The pool hands a queued task to an idle thread (the threads are
\* interchangeable: the first idle one is taken); the worker entry resolves
\* the two identifiers and executeWorkerTask builds the context and finds the
\* provider's wrapper.
WorkerStart(c, t) ==
    /\ tasks[c].state = "queued"
    /\ t \in IdleThreads
    /\ \A u \in IdleThreads : t <= u
    /\ LET env == tasks[c].envelope IN
       \E moduleToken \in {Require(env.moduleIdentifier)} :
       \E providerToken \in {Require(env.providerIdentifier)} :
       \E app \in {CreateApplicationContext(moduleToken)} :
          IF RequireThrows(env.moduleIdentifier) \/ RequireThrows(env.providerIdentifier)
          THEN LET err == [kind |-> "InvalidArgType", name |-> "filename"] IN
               /\ tasks' = [tasks EXCEPT ![c] =
                      AfterRejection([@ EXCEPT !.state = "done", !.outcome = Failure(err)])]
               /\ calls' = [calls EXCEPT ![Recipient(c)] = Settled(@, Failure(err))]
          ELSE IF ~app.ok
          THEN /\ tasks' = [tasks EXCEPT ![c] =
                      AfterRejection([@ EXCEPT !.state = "done",
                                               !.outcome = Failure(app.error)])]
               /\ calls' = [calls EXCEPT ![Recipient(c)] = Settled(@, Failure(app.error))]
          ELSE IF ~FindsWrapper(app, providerToken)
          THEN \* the message is built with providerToken.toString()
               LET err == IF providerToken = "undefined"
                          THEN [kind |-> "TypeError", name |-> "toString"]
                          ELSE [kind |-> "ProviderNotFound", name |-> providerToken] IN
               /\ tasks' = [tasks EXCEPT ![c] =
                      AfterRejection([@ EXCEPT !.state = "done", !.app = "open",
                                               !.workerPools = ContextPools(
                                                   WorkerContextModules(moduleToken)),
                                               !.outcome = Failure(err)])]
               /\ calls' = [calls EXCEPT ![Recipient(c)] = Settled(@, Failure(err))]
          ELSE /\ tasks' = [tasks EXCEPT ![c].state = "running", ![c].thread = t,
                                         ![c].app = "open",
                                         ![c].workerPools = ContextPools(
                                             WorkerContextModules(moduleToken))]
               /\ UNCHANGED calls
    /\ UNCHANGED <<cfg, initState, initError, stubs, pools, shutdown, mainCtxId, touched>>
    /\ UNCHANGED <<startupVars, scans>>

\* executeWorkerTask from the scope classification on: the method is resolved
\* and invoked, the context is closed after a return, and the outcome goes
\* back to the caller.
WorkerFinish(c) ==
    /\ tasks[c].state = "running"
    /\ LET env == tasks[c].envelope IN
       \E providerToken \in {Require(env.providerIdentifier)} :
       LET w == Wrappers[WrapperOf(providerToken)]
           isRequestScoped == IsRequestScopedInWorker(w)
           contextArg == Arg(env.args, 1)
           contextId == StubContextId(contextArg, 2 * MaxCtx + MaxCalls + c)
       IN
       \E bodyArgs \in {IF isRequestScoped
                         THEN <<DefineContextId(contextArg, contextId)>> \o Rest(env.args)
                         ELSE env.args} :
       \E entry \in {MethodEntry(w, isRequestScoped, env.methodName)} :
       \E raw \in {IF entry = NoError
                    THEN MethodBody(providerToken, env.methodName, bodyArgs, FALSE)
                    ELSE Failure(entry)} :
       \E patched \in {WorkerPatched(WorkerContextModules(Require(env.moduleIdentifier)))} :
       LET inst == WorkerInstance(c, tasks[c].thread)
           nested == NestedCalls(providerToken, env.methodName)
           out == IF entry # NoError THEN raw
                  ELSE IF raw.kind = "throw"
                  THEN Failure([kind |-> "user", name |-> raw.v.v]) ELSE raw
           entered == entry = NoError
           ended == [tasks[c] EXCEPT !.state = "done",
                                     !.thread = 0,
                                     !.bodyRan = entered,
                                     !.scope = IF isRequestScoped THEN "request" ELSE "static",
                                     !.ranOn = IF entered THEN tasks[c].thread ELSE @,
                                     !.bodyArgs = IF entered THEN bodyArgs ELSE @,
                                     !.instance = IF entered THEN inst ELSE @,
                                     !.observed = IF entered THEN touched[inst] ELSE @,
                                     !.contextId = IF isRequestScoped THEN contextId ELSE 0,
                                     !.outcome = out,
                                     !.nestedLocal = IF entered THEN Cardinality(
                                         {n \in nested : <<providerToken, n>> \notin patched})
                                         ELSE 0,
                                     !.nestedDispatched = IF entered THEN Cardinality(
                                         {n \in nested : <<providerToken, n>> \in patched})
                                         ELSE 0,
                                     !.workerPools = IF out.kind = "return"
                                                     THEN AppClose(@) ELSE @,
                                     !.app = IF out.kind = "return" THEN "closed" ELSE "open"]
       IN /\ tasks' = [tasks EXCEPT ![c] =
                 IF out.kind = "throw" THEN AfterRejection(ended) ELSE ended]
          /\ touched' = IF entered THEN [touched EXCEPT ![inst] = @ + 1] ELSE touched
          /\ calls' = [calls EXCEPT ![Recipient(c)] = Settled(@, out)]
    /\ UNCHANGED <<cfg, initState, initError, stubs, pools, shutdown, mainCtxId>>
    /\ UNCHANGED <<startupVars, scans>>

\* The listener PiscinaService registers for the pool's 'error' event logs the
\* error; an 'error' event without a listener is thrown in the host process.
NoErrorListener(error) == "uncaught"
ErrorListener(error) == "logged"

\* The thread running task c dies before the method settles (the worker exits
\* or raises an uncaught error): the pool rejects the task's promise, emits
\* 'error' and replaces the thread.
WorkerCrash(c) ==
    /\ tasks[c].state = "running"
    /\ LET err == [kind |-> "WorkerCrashed", name |-> "worker"] IN
       /\ tasks' = [tasks EXCEPT ![c] =
              AfterRejection([@ EXCEPT !.state = "done", !.thread = 0,
                                       !.app = "terminated",
                                       !.workerPools = {},
                                       !.outcome = Failure(err),
                                       !.poolEvent = ErrorListener(err)])]
       /\ calls' = [calls EXCEPT ![Recipient(c)] = Settled(@, Failure(err))]
    /\ UNCHANGED <<cfg, initState, initError, stubs, pools, shutdown, mainCtxId, touched>>
    /\ UNCHANGED <<startupVars, scans>>

\* PiscinaService.onModuleDestroy: await this.pool.destroy().  Piscina stops the
\* threads of that pool and rejects the promises of its pending tasks.
OnModuleDestroy ==
    /\ initState = "done"
    /\ ~shutdown
    /\ shutdown' = TRUE
    /\ pools' = [pools EXCEPT ![DestroyedPool] = "destroyed"]
    /\ LET pending == {c \in 1..Len(calls) : tasks[c].state \in {"queued", "running"}}
           err == [kind |-> "Terminated", name |-> DestroyedPool]
       IN IF DestroyedPool = DispatchPool
          THEN /\ tasks' = [c \in CallIds |->
                               IF c \in pending
                               THEN [tasks[c] EXCEPT !.state = "aborted", !.thread = 0,
                                                     !.workerPools = {},
                                                     !.outcome = Failure(err),
                                                     !.app = IF @ = "open" THEN "terminated" ELSE @]
                               ELSE tasks[c]]
               /\ calls' = [c \in 1..Len(calls) |->
                               IF c \in pending THEN Settled(calls[c], Failure(err)) ELSE calls[c]]
          ELSE UNCHANGED <<tasks, calls>>
    /\ UNCHANGED <<cfg, initState, initError, stubs, mainCtxId, touched>>
    /\ UNCHANGED <<startupVars, scans>>

\* ------------------------------------------------------------------ specification
\* The applications analysed: the test module; the README's feature module
\* with or without its marker and its import of the global module; the module
\* with an inherited marked method; the module declared without a file; the
\* image module, imported next to PiscinaModule by the root module or importing
\* PiscinaModule itself.
AppConfigs ==
    {a \in [app : {"example", "feature", "report", "script", "image"},
            featureEnabled : BOOLEAN, featureImportsConfig : BOOLEAN,
            imageImportsPiscina : BOOLEAN] :
        /\ IF a.app = "feature" THEN a.featureEnabled \/ a.featureImportsConfig
           ELSE ~a.featureEnabled /\ ~a.featureImportsConfig
        /\ a.app # "image" => ~a.imageImportsPiscina}

InstanceKeys == ({"call"} \X CallIds) \cup ({"thread"} \X Threads) \cup MainInstances

\* The state after construction, but for the application and the host.
InitRest ==
    /\ initState = "pending"
    /\ initError = NoError
    /\ stubs = [pm \in Methods |-> NoStub]
    /\ pools = [p \in {DispatchPool, InjectedPool} |-> "alive"]
    /\ shutdown = FALSE
    /\ calls = <<>>
    /\ tasks = [c \in CallIds |-> NoTask]
    /\ mainCtxId = [k \in CtxObjs |-> 0]
    /\ touched = [k \in InstanceKeys |-> 0]
    /\ scans = 0

Init ==
    /\ cfg \in AppConfigs
    /\ host = TestHost
    /\ workerPath = WorkerPathFactory(host)
    /\ decoration = TestDecoration
    /\ origin = CallerFile(decoration.stack, decoration.callerFilename)
    /\ InitRest

Next ==
    \/ OnModuleInit
    \/ \E pm \in Methods : \E args \in ArgChoices(pm[1]) : Call(pm[1], pm[2], args)
    \/ \E c \in CallIds, t \in Threads : WorkerStart(c, t)
    \/ \E c \in CallIds : WorkerFinish(c)
    \/ \E c \in CallIds : WorkerCrash(c)
    \/ OnModuleDestroy

Spec == Init /\ [][Next]_vars

\* The pool runs a queued task when a thread is idle, and every invocation in a
\* worker ends: it returns, throws, or its thread dies.
FairSpec ==
    /\ Spec
    /\ WF_vars(\E c \in CallIds, t \in Threads : WorkerStart(c, t))
    /\ WF_vars(\E c \in CallIds : WorkerFinish(c) \/ WorkerCrash(c))

\* The worker side under envelopes of any content: application code calls
\* runFunction with identifiers of the example and feature classes, a method
\* name that is a method, an object-valued field or no property of the
\* provider, and an argument list of the provider's call shape.
Identifier(name) == [filename |-> SourceFile(name), tokenName |-> name]
DirectEnvelopes ==
    {[moduleIdentifier |-> Identifier(m), providerIdentifier |-> Identifier(p),
      methodName |-> n,
      args |-> IF p = "RequestScopeExampleService"
               THEN <<CtxObject(1, 0), Num(MaxIter)>> ELSE <<Num(MaxIter)>>] :
        m \in {"ExampleModule", "FeatureModule"},
        p \in {"ExampleService", "RequestScopeExampleService", "ComputeService"},
        n \in {"pi", "logger", "missing"}}

DirectInit ==
    /\ cfg = [app |-> "example", featureEnabled |-> FALSE, featureImportsConfig |-> FALSE,
              imageImportsPiscina |-> FALSE]
    /\ host = TestHost
    /\ workerPath = WorkerPathFactory(host)
    /\ decoration = TestDecoration
    /\ origin = CallerFile(decoration.stack, decoration.callerFilename)
    /\ InitRest

DirectNext ==
    \/ OnModuleInit
    \/ \E env \in DirectEnvelopes : RunFunction(env)
    \/ \E c \in CallIds, t \in Threads : WorkerStart(c, t)
    \/ \E c \in CallIds : WorkerFinish(c)

DirectSpec == DirectInit /\ [][DirectNext]_vars

\* The explorer's scan repeated on a started application, for the applications
\* above and for one that registers the request-scoped example class a second
\* time, in a module of its own (the test application extended by that
\* module, which stands for the test application too).
AliasApp == [app |-> "alias", featureEnabled |-> FALSE, featureImportsConfig |-> FALSE,
             imageImportsPiscina |-> FALSE]

RescanInit ==
    /\ cfg \in {a \in AppConfigs : a.app # "example"} \cup {AliasApp}
    /\ host = TestHost
    /\ workerPath = WorkerPathFactory(host)
    /\ decoration = TestDecoration
    /\ origin = CallerFile(decoration.stack, decoration.callerFilename)
    /\ InitRest

RescanNext ==
    \/ OnModuleInit
    \/ OnModuleInitAgain
    \/ \E pm \in Methods : \E args \in ArgChoices(pm[1]) : Call(pm[1], pm[2], args)
    \/ \E c \in CallIds, t \in Threads : WorkerStart(c, t)
    \/ \E c \in CallIds : WorkerFinish(c)

RescanSpec == RescanInit /\ [][RescanNext]_vars

\* Startup of the module on any host: the factory of WORKER_PATH_PROVIDER runs
\* once, before any provider that injects the path is built.
StartupInit ==
    /\ cfg = [app |-> "example", featureEnabled |-> FALSE, featureImportsConfig |-> FALSE,
              imageImportsPiscina |-> FALSE]
    /\ host \in Hosts
    /\ workerPath = Unresolved
    /\ decoration = TestDecoration
    /\ origin = CallerFile(decoration.stack, decoration.callerFilename)
    /\ InitRest

ResolveWorkerPath ==
    /\ workerPath = Unresolved
    /\ workerPath' = WorkerPathFactory(host)
    /\ UNCHANGED <<cfg, initState, initError, stubs, pools, shutdown, calls, tasks,
                   mainCtxId, touched, host, decoration, origin, scans>>

StartupNext == ResolveWorkerPath

StartupSpec == StartupInit /\ [][StartupNext]_vars

\* A decorator factory applied under any call stack: callerFile runs once on
\* the stack it finds.  A frame is the file getFileName() gives, "null" for a
\* frame without one.
Frames == {"null", CommonFile, "run-with-piscina.decorator",
           "piscina-enabled.decorator", "example.service"}
Stacks == UNION {[1..n -> Frames] : n \in 0..MaxDepth}

DecorationInit ==
    /\ cfg = [app |-> "example", featureEnabled |-> FALSE, featureImportsConfig |-> FALSE,
              imageImportsPiscina |-> FALSE]
    /\ host = TestHost
    /\ workerPath = WorkerPathFactory(host)
    /\ decoration \in [stack : Stacks,
                        callerFilename : {"run-with-piscina.decorator",
                                          "piscina-enabled.decorator"}]
    /\ origin = "pending"
    /\ InitRest

ApplyCallerFile ==
    /\ origin = "pending"
    /\ origin' = CallerFile(decoration.stack, decoration.callerFilename)
    /\ UNCHANGED <<cfg, initState, initError, stubs, pools, shutdown, calls, tasks,
                   mainCtxId, touched, host, workerPath, decoration, scans>>

DecorationNext == ApplyCallerFile

DecorationSpec == DecorationInit /\ [][DecorationNext]_vars

\* ------------------------------------------------------------------ properties
Made == 1..Len(calls)
Dispatched == {c \in Made : calls[c].via = "pool"}
WrapperOfCall(c) == Wrappers[WrapperOf(calls[c].token)]
StaticCalls == {c \in Dispatched : IsDependencyTreeStatic(WrapperOfCall(c))}
RequestCalls == {c \in Dispatched : ~IsDependencyTreeStatic(WrapperOfCall(c))}

\* What the original body does with the caller's argument list on a worker-side
\* instance (the list arrives by structured clone).
Original(c) == MethodBody(calls[c].token, calls[c].method, CloneArgs(calls[c].args), FALSE)

\* C1 - static-scope transparency: a call of an intercepted method of a static
\* provider whose body ran in the worker and returned resolves to exactly the
\* value the original body returns for the caller's arguments, and a resolved
\* call never carries another value.
StaticTransparency ==
    \A c \in StaticCalls :
        /\ (tasks[c].bodyRan /\ Original(c).kind = "return")
              => (calls[c].status = "resolved" /\ calls[c].value = Original(c).v)
        /\ calls[c].status = "resolved"
              => (tasks[c].bodyRan /\ Original(c).kind = "return"
                  /\ calls[c].value = Original(c).v)

StaticTransparencyWitness ==
    \E c \in StaticCalls :
        /\ calls[c].token = "ExampleService"
        /\ calls[c].args = <<Num(MaxIter)>>
        /\ calls[c].status = "resolved"
        /\ calls[c].value = Num(PiSum(MaxIter))

\* C2 - request-scope transparency: for a request-scoped provider called with
\* (context, ...rest), context an object, the body runs in the worker on a
\* per-request instance with the caller's argument list, same length and order,
\* and the call resolves to what the body returns for that list.
RequestTransparency ==
    \A c \in RequestCalls :
        (TypeofObject(Arg(calls[c].args, 1)) /\ tasks[c].bodyRan) =>
            /\ tasks[c].contextId # 0
            /\ CloneArgs(tasks[c].bodyArgs) = CloneArgs(calls[c].args)
            /\ Original(c).kind = "return"
                  => (calls[c].status = "resolved" /\ calls[c].value = Original(c).v)

RequestTransparencyWitness ==
    \E c \in RequestCalls :
        /\ TypeofObject(Arg(calls[c].args, 1))
        /\ Len(calls[c].args) = 2
        /\ tasks[c].bodyRan
        /\ calls[c].status = "resolved"
        /\ calls[c].value = Num(PiSum(MaxIter))

\* C3 - error propagation: when the body throws E in the worker the caller's
\* call is rejected with E's message, after the error was logged; it is not
\* resolved and carries no other error.
ErrorPropagation ==
    \A c \in Dispatched :
        (tasks[c].bodyRan /\ Original(c).kind = "throw") =>
            /\ calls[c].status = "rejected"
            /\ calls[c].error = [kind |-> "user", name |-> Original(c).v.v]
            /\ calls[c].logged

ErrorPropagationWitness ==
    \E c \in Dispatched :
        /\ tasks[c].bodyRan
        /\ tasks[c].outcome.kind = "throw"
        /\ calls[c].status = "rejected"
        /\ calls[c].error.name = "Factorial is not defined for negative numbers"

\* C4 - once onModuleInit has completed, every marked method of every provider
\* resolves to a stub on each of its main-thread instances, and no call made
\* from then on runs an original body on the main thread.
LocalCalls == {c \in Made : calls[c].via = "local"}
NoMainThreadBody ==
    [][initState = "done" =>
          /\ \A i \in WrapperIds : \A m \in Wrappers[i].marked :
                InApp(Wrappers[i]) =>
                Lookup(stubs, Wrappers[i].token, m, ~IsDependencyTreeStatic(Wrappers[i])) # NoStub
          /\ \A c \in 1..Len(calls') : calls'[c].via = "local" => c \in LocalCalls]_vars

NoMainThreadBodyWitness ==
    /\ initState = "done"
    /\ \E c \in StaticCalls : tasks[c].bodyRan
    /\ \E c \in RequestCalls : tasks[c].bodyRan

\* C5 - result correlation: whatever the order in which the workers finish,
\* a dispatched call is settled only by the outcome of its own task, which was
\* computed from its own envelope (its method and its arguments).
ResultCorrelation ==
    \A c \in Dispatched :
        LET call == calls[c]
            task == tasks[c]
        IN call.status # "pending" =>
            IF task.state = "none"
            THEN call.error.kind = "PoolDestroyed"
            ELSE /\ task.state \in {"done", "aborted"}
                 /\ task.envelope = [call.envelope EXCEPT !.args = CloneArgs(call.args)]
                 /\ call.envelope.methodName = call.method
                 /\ call.envelope.providerIdentifier.tokenName = call.token
                 /\ IF task.outcome.kind = "return"
                    THEN call.status = "resolved" /\ call.value = task.outcome.v
                    ELSE call.status = "rejected" /\ call.error = task.outcome.v
                 /\ task.bodyRan =>
                       IF Original(c).kind = "return"
                       THEN task.outcome = Original(c)
                       ELSE task.outcome.v.name = Original(c).v.v

\* Two calls in flight at once, the later one settled first with its own value.
ResultCorrelationWitness ==
    \E c, d \in Dispatched :
        /\ c < d
        /\ tasks[c].state = "running"
        /\ calls[c].status = "pending"
        /\ calls[d].status = "resolved"
        /\ calls[c].args # calls[d].args
        /\ calls[d].value = Original(d).v

\* C6 - a provider with a marked method in a module without @PiscinaEnabled
\* makes onModuleInit throw an error naming that module: startup never
\* completes, and no envelope is ever submitted for that method.
Offending == {i \in WrapperIds : /\ InApp(Wrappers[i])
                                 /\ Wrappers[i].instance = "object"
                                 /\ Wrappers[i].marked # {}
                                 /\ ~PiscinaEnabled(Wrappers[i].host).present}
MissingMarkerFatal ==
    \A i \in Offending :
        /\ initState # "done"
        /\ initState = "failed"
              => initError = [kind |-> "NoPiscinaEnabled", name |-> Wrappers[i].host]
        /\ \A c \in Made : calls[c].token = Wrappers[i].token =>
              (calls[c].envelope = NoEnvelope /\ tasks[c].state = "none")

MissingMarkerFatalWitness ==
    /\ initState = "failed"
    /\ initError.name = "FeatureModule"
    /\ \E c \in Made : calls[c].token = "ComputeService" /\ calls[c].status # "pending"

\* C7 - module isolation: when a dependency of the provider comes from a global
\* module that the owning module's import graph does not reach, the provider is
\* patched on the main thread, and the dispatched call is rejected in the
\* worker with a resolution error naming the dependency, the body never running.
UnreachableDeps(w) ==
    {d \in w.deps : /\ Wrappers[WrapperOf(d)].host \in GlobalModules
                    /\ Wrappers[WrapperOf(d)].host \notin ImportClosure({w.host})}
RequestIsolation ==
    \A c \in RequestCalls :
        tasks[c].bodyRan =>
            /\ tasks[c].observed = 0
            /\ \A d \in RequestCalls \ {c} :
                  (tasks[d].bodyRan
                   /\ Arg(calls[c].args, 1).requestId # Arg(calls[d].args, 1).requestId)
                      => tasks[c].instance # tasks[d].instance

RequestIsolationWitness ==
    \E c, d \in RequestCalls :
        /\ Arg(calls[c].args, 1).requestId # Arg(calls[d].args, 1).requestId
        /\ tasks[c].bodyRan
        /\ tasks[d].bodyRan
        /\ tasks[c].contextId # tasks[d].contextId

\* C9 - after interception, no step changes the state of a main-thread
\* provider instance, and the step in which a worker runs a body changes
\* nothing of a call on the main thread but its settlement.
Settlement(call) == [call EXCEPT !.status = "pending", !.value = NoValue,
                                 !.error = NoError, !.logged = FALSE]
MainStateUntouched ==
    [][initState = "done" =>
          /\ \A k \in MainInstances : touched'[k] = touched[k]
          /\ \A c \in Made : Settlement(calls'[c]) = Settlement(calls[c])]_vars

MainStateUntouchedWitness ==
    /\ initState = "done"
    /\ \E k \in InstanceKeys \ MainInstances : touched[k] > 0
    /\ \A k \in MainInstances : touched[k] = 0
    /\ \E c \in Dispatched : calls[c].status = "resolved"

\* C11 - once PiscinaService.onModuleDestroy has completed, every pool the
\* module constructed at startup (the one inside PiscinaService and the one
\* provided under PISCINA_POOL) is destroyed: none keeps threads alive.
AllPoolsTerminated ==
    shutdown => \A p \in DOMAIN pools : pools[p] = "destroyed"

\* C12 - the application context executeWorkerTask created for a call is closed
\* whenever the call has ended, on a return, on a throw of the method and on a
\* failed resolution alike: no ended task leaves its context open.
ContextTeardown ==
    \A c \in CallIds : tasks[c].state = "done" => tasks[c].app # "open"

\* C13 - no retries: every call of an intercepted method makes exactly one
\* submission to the pool, also when the task is rejected, and a task that has
\* ended is never put back in the queue.
NoRetries ==
    [][/\ \A c \in 1..Len(calls') :
              tasks'[c].submitted = IF calls'[c].via = "pool" THEN 1 ELSE 0
       /\ \A c \in Made :
              tasks[c].state \in {"done", "aborted"} => tasks'[c].state = tasks[c].state]_vars

NoRetriesWitness ==
    \E c \in Dispatched :
        /\ tasks[c].state = "done"
        /\ tasks[c].outcome.kind = "throw"
        /\ calls[c].status = "rejected"
        /\ tasks[c].submitted = 1

\* C14 - identity round trip: for every provider class and module class that is
\* exported from a file under its own name and has an intercepted method
\* (declared by the class or inherited), the identifiers built by patchMethod
\* resolve in the worker entry to the class that owns the call on the main
\* thread and to its module.
Exported(name) == SourceFile(name) # "null"
IdentityRoundTrip ==
    \A pm \in Marked :
        LET w == Wrappers[WrapperOf(pm[1])] IN
        (stubs[pm] # NoStub /\ Exported(w.token) /\ Exported(w.host)) =>
            /\ ~RequireThrows(stubs[pm].providerIdentifier)
            /\ ~RequireThrows(stubs[pm].moduleIdentifier)
            /\ Require(stubs[pm].providerIdentifier) = w.token
            /\ Require(stubs[pm].moduleIdentifier) = w.host

\* C15 - context-identifier idempotence: calls of a request-scoped stub with
\* the same context object derive the same context identifier; the later
\* attachment of the hidden field does not throw, and the identifier attached
\* first stays on the object.
SameContextObject(c, d) ==
    /\ TypeofObject(Arg(calls[c].args, 1))
    /\ TypeofObject(Arg(calls[d].args, 1))
    /\ Arg(calls[c].args, 1).requestId = Arg(calls[d].args, 1).requestId
ContextIdIdempotent ==
    \A c, d \in RequestCalls :
        SameContextObject(c, d) =>
            /\ calls[c].contextId = calls[d].contextId
            /\ calls[c].contextId # 0
            /\ calls[c].error.kind # "TypeError"
            /\ mainCtxId[Arg(calls[c].args, 1).requestId] = calls[c].contextId
            /\ Arg(calls[c].args, 1).ctxId = calls[c].contextId

ContextIdIdempotentWitness ==
    \E c, d \in RequestCalls :
        /\ c < d
        /\ SameContextObject(c, d)
        /\ calls[c].contextId = FreshContextId(c)
        /\ calls[d].contextId = FreshContextId(c)
        /\ tasks[d].submitted = 1

\* C16 - the pool handle provided under PISCINA_POOL is the pool runFunction
\* submits to: at every moment the tasks in flight through runFunction are the
\* tasks the handle's queue and threads hold.
InFlight == {c \in CallIds : tasks[c].state \in {"queued", "running"}}
HandleLoad == Cardinality({c \in InFlight : tasks[c].pool = InjectedPool})
PoolHandleIsDispatchPool == HandleLoad = Cardinality(InFlight)

\* C17 - a missing origin is a startup error: when callerFile gave no file for
\* a marked method or for the enabled module of its provider, onModuleInit
\* does not complete, no stub holds an identifier without a file name, and no
\* envelope is submitted for the method.
OriginMissing(w, m) ==
    \/ RunWithPiscina(w.token, m).filename = "undefined"
    \/ (PiscinaEnabled(w.host).present /\ PiscinaEnabled(w.host).filename = "undefined")
MissingOriginFatal ==
    \A pm \in Marked :
        LET w == Wrappers[WrapperOf(pm[1])] IN
        (InApp(w) /\ OriginMissing(w, pm[2])) =>
            /\ initState # "done"
            /\ stubs[pm] = NoStub
            /\ \A c \in Made : calls[c].token = w.token => tasks[c].submitted = 0

\* C18 - worker entry selection by the declaration alone: once the factory has
\* run, the ESM entry was selected exactly when package.json declares type
\* "module" and the CommonJS entry otherwise; a path is returned exactly when the selected
\* file exists, else 'Worker file not found' is thrown.
SelectedESM == workerPath.path[1] = "run-with-piscina.worker"
SelectedCJS == workerPath.path[1] = "run-with-piscina.worker.cjs"
FoundOrThrown ==
    /\ workerPath.path[2] = (IF host.typescript THEN "ts" ELSE "js")
    /\ workerPath.state = "resolved" <=> workerPath.path \in host.files
    /\ workerPath.state = "failed" <=> workerPath.path \notin host.files
    /\ workerPath.state = "failed" => workerPath.error = "Worker file not found"
WorkerEntryByDeclaration ==
    workerPath # Unresolved =>
        /\ SelectedESM <=> host.pkg = "module"
        /\ SelectedCJS <=> host.pkg # "module"
        /\ FoundOrThrown

\* C18 - worker entry selection with the fallback of the factory's catch: the
\* ESM entry is selected when package.json declares type
\* "module", the CommonJS entry when it is absent or declares another type or
\* none; when reading or parsing package.json throws, the ESM entry is selected
\* exactly when the runtime has no `module` binding.  A path is returned exactly
\* when the selected file exists, else 'Worker file not found' is thrown.
WorkerEntrySelection ==
    workerPath # Unresolved =>
        /\ host.pkg = "module" => SelectedESM
        /\ host.pkg \in {"absent", "commonjs", "untyped"} => SelectedCJS
        /\ host.pkg = "unreadable" =>
              /\ SelectedESM <=> ~host.moduleDefined
              /\ SelectedCJS <=> host.moduleDefined
        /\ FoundOrThrown

WorkerEntrySelectionWitness ==
    /\ host.pkg = "unreadable"
    /\ ~host.moduleDefined
    /\ workerPath.state = "resolved"
    /\ SelectedESM

\* C19 - graceful shutdown drains: a call dispatched before onModuleDestroy and
\* still queued or running when it runs completes with its own outcome; no such
\* call is rejected because of the shutdown.
ShutdownDrains ==
    \A c \in Dispatched :
        ~calls[c].afterShutdown =>
            /\ tasks[c].state # "aborted"
            /\ calls[c].error.kind # "Terminated"

\* C20 - every dispatched call settles exactly once: no dispatched call stays
\* pending for ever (its worker returned, threw or died, or the pool rejected
\* it; a settled call keeps its settlement, so from some point on every
\* dispatched call is settled), a settled call is never settled again, it is resolved only
\* when its worker returned, and a pool 'error' event is logged by the listener,
\* never thrown in the host process.
SettlesExactlyOnce ==
    /\ [][\A c \in Made : calls[c].status # "pending" => calls'[c] = calls[c]]_vars
    /\ [](\A c \in Dispatched :
            /\ tasks[c].poolEvent # "uncaught"
            /\ calls[c].status = "resolved" => tasks[c].outcome.kind = "return"
            /\ (calls[c].status = "rejected" /\ tasks[c].state # "none")
                  => tasks[c].outcome.kind = "throw")
    /\ <>[](\A c \in Dispatched : calls[c].status \in {"resolved", "rejected"})

SettlesExactlyOnceWitness ==
    \E c, d \in Dispatched :
        /\ calls[c].status = "rejected"
        /\ calls[c].error.kind = "WorkerCrashed"
        /\ calls[c].logged
        /\ tasks[c].poolEvent = "logged"
        /\ calls[d].status = "resolved"
        /\ tasks[d].bodyRan

\* C21 - no recursive dispatch: the interception scan does nothing inside a
\* worker, so the marked methods a dispatched body calls on its own provider
\* run their original bodies in that worker, none of them goes to a pool, and
\* one call by a main-thread caller makes one pool submission in all.
NoRecursiveDispatch ==
    \A c \in Dispatched :
        /\ tasks[c].nestedDispatched = 0
        /\ tasks[c].submitted + tasks[c].nestedDispatched = 1
        /\ tasks[c].bodyRan =>
              tasks[c].nestedLocal = Cardinality(NestedCalls(calls[c].token, calls[c].method))

NoRecursiveDispatchWitness ==
    \E c \in Dispatched :
        /\ cfg.imageImportsPiscina
        /\ calls[c].method = "resize"
        /\ tasks[c].bodyRan
        /\ tasks[c].nestedLocal = 1
        /\ calls[c].status = "resolved"
        /\ calls[c].value = Num(MaxIter)

\* C22 - worker-side resources are released after a successful call: when
\* executeWorkerTask has returned a result, the context created for the call is
\* closed and no pool built by that context's providers is alive in the worker.
WorkerResourcesReleased ==
    \A c \in CallIds :
        (tasks[c].state = "done" /\ tasks[c].outcome.kind = "return") =>
            /\ tasks[c].app = "closed"
            /\ tasks[c].workerPools = {}

\* C23 - no cross-call state in a worker: every dispatched call whose body ran,
\* of a static or a request-scoped provider, ran on a provider instance of the
\* context created for that call, which no other call's body ran on and which
\* had received no write before, also when the calls ran on the same thread.
NoCrossCallState ==
    \A c \in Dispatched :
        tasks[c].bodyRan =>
            /\ tasks[c].instance = <<"call", c>>
            /\ tasks[c].observed = 0
            /\ touched[tasks[c].instance] = 1
            /\ \A d \in Dispatched \ {c} :
                  tasks[d].bodyRan => tasks[d].instance # tasks[c].instance

NoCrossCallStateWitness ==
    \E c, d \in StaticCalls :
        /\ c # d
        /\ calls[c].token = calls[d].token
        /\ tasks[c].bodyRan
        /\ tasks[d].bodyRan
        /\ tasks[c].ranOn = tasks[d].ranOn

\* The provider class of the envelope is held by the context built from its
\* module class.
ProviderInContext(c) ==
    LET env == calls[c].envelope
        app == CreateApplicationContext(Require(env.moduleIdentifier))
    IN app.ok /\ Require(env.providerIdentifier) \in app.providers

\* C24 - method-not-found is reported descriptively: when the provider is
\* resolved, static or request-scoped, and methodName names no function on its
\* instance, the task fails with the error 'Method <methodName> not found in
\* class <provider>' and the caller's call is rejected with that error.
MethodNotFoundReported ==
    \A c \in Dispatched :
        (/\ tasks[c].state = "done"
         /\ ProviderInContext(c)
         /\ TypeofProperty(WrapperOfCall(c), calls[c].method) # "function") =>
            /\ calls[c].status = "rejected"
            /\ calls[c].error = [kind |-> "MethodNotFound", name |-> calls[c].method]

\* C25 - provider-not-found is reported descriptively: when the context built
\* from the module class holds no wrapper for the resolved provider class, the
\* task fails with an error naming the provider, no body is invoked and the
\* caller's call is rejected with that error.
ProviderNotFoundReported ==
    \A c \in Dispatched :
        LET env == calls[c].envelope
            app == CreateApplicationContext(Require(env.moduleIdentifier))
            providerToken == Require(env.providerIdentifier)
        IN (/\ tasks[c].state \in {"running", "done"}
            /\ app.ok
            /\ providerToken # "undefined"
            /\ providerToken \notin app.providers) =>
               /\ tasks[c].state = "done"
               /\ ~tasks[c].bodyRan
               /\ touched[<<"call", c>>] = 0
               /\ tasks[c].outcome = Failure([kind |-> "ProviderNotFound", name |-> providerToken])
               /\ calls[c].status = "rejected"
               /\ calls[c].error = [kind |-> "ProviderNotFound", name |-> providerToken]

ProviderNotFoundReportedWitness ==
    \E c \in Dispatched :
        /\ calls[c].envelope.moduleIdentifier.tokenName = "ExampleModule"
        /\ calls[c].token = "ComputeService"
        /\ calls[c].status = "rejected"
        /\ calls[c].error = [kind |-> "ProviderNotFound", name |-> "ComputeService"]

\* C26 - envelope invariance: the stubs stay as interception left them, and
\* every envelope a stub submits carries the module identifier, provider
\* identifier and method name fixed in that stub, with the argument list of the
\* call as args; envelopes of one method differ in args only.
SameButArgs(e, f) == [e EXCEPT !.args = <<>>] = [f EXCEPT !.args = <<>>]
EnvelopeInvariance ==
    /\ [][initState # "pending" => stubs' = stubs]_vars
    /\ [](\A c \in Dispatched :
            LET s == stubs[<<calls[c].token, calls[c].method>>] IN
            /\ s # NoStub
            /\ calls[c].envelope.moduleIdentifier = s.moduleIdentifier
            /\ calls[c].envelope.providerIdentifier = s.providerIdentifier
            /\ calls[c].envelope.methodName = calls[c].method
            /\ calls[c].envelope.args = calls[c].args
            /\ \A d \in Dispatched :
                  (calls[d].token = calls[c].token /\ calls[d].method = calls[c].method)
                     => SameButArgs(calls[d].envelope, calls[c].envelope))

EnvelopeInvarianceWitness ==
    \E c, d \in Dispatched :
        /\ calls[c].token = calls[d].token
        /\ calls[c].method = calls[d].method
        /\ calls[c].args # calls[d].args
        /\ calls[c].envelope.args = calls[c].args
        /\ calls[d].envelope.args = calls[d].args
        /\ tasks[c].submitted = 1
        /\ tasks[d].submitted = 1

\* C27 - scope classification agrees across the boundary: for every dispatched
\* call the worker classifies the provider as the stub did on the main thread,
\* and derives a context identifier from the first argument exactly when the
\* stub did.
ScopeAgreement ==
    \A c \in Dispatched :
        tasks[c].scope # "none" =>
            LET s == stubs[<<calls[c].token, calls[c].method>>] IN
            /\ (tasks[c].scope = "request") <=> s.requestScoped
            /\ (tasks[c].contextId # 0) <=> (calls[c].contextId # 0)
            /\ tasks[c].bodyRan =>
                  Len(tasks[c].bodyArgs) = Len(calls[c].args)

ScopeAgreementWitness ==
    \E c, d \in Dispatched :
        /\ tasks[c].scope = "request"
        /\ calls[c].contextId # 0
        /\ tasks[c].contextId # 0
        /\ tasks[c].bodyRan
        /\ tasks[d].scope = "static"
        /\ calls[d].contextId = 0
        /\ tasks[d].bodyRan

\* C28 - interception leaves unmarked code alone: no method without the
\* descriptor and no method of a provider whose instance is not an object is
\* ever replaced by a stub or makes onModuleInit fail, and a call of such a
\* method runs its original body in the calling thread and submits nothing.
UnmarkedLeftAlone ==
    /\ \A pm \in Methods \ Marked : stubs[pm] = NoStub
    /\ \A i \in WrapperIds : \A m \in Wrappers[i].methods :
           Wrappers[i].instance # "object" => stubs[<<Wrappers[i].token, m>>] = NoStub
    /\ initState = "failed" =>
           \E i \in WrapperIds : /\ InApp(Wrappers[i])
                                  /\ Wrappers[i].marked # {}
                                  /\ initError.name = Wrappers[i].host
    /\ \A c \in Made :
           <<calls[c].token, calls[c].method>> \notin Marked =>
               /\ calls[c].via = "unmarked"
               /\ calls[c].status = "resolved"
               /\ calls[c].value = MethodBody(calls[c].token, calls[c].method,
                                              calls[c].args, TRUE).v
               /\ tasks[c] = NoTask

UnmarkedLeftAloneWitness ==
    /\ initState = "done"
    /\ stubs[<<"ImageService", "resize">>] # NoStub
    /\ \E c \in Made :
           /\ calls[c].token = "MyService"
           /\ calls[c].method = "getPoolStats"
           /\ calls[c].via = "unmarked"
           /\ calls[c].status = "resolved"
           /\ tasks[c].submitted = 0
    /\ \E d \in Dispatched : tasks[d].submitted = 1

\* C29 - the result of callerFile: the file of the innermost stack frame that
\* has a file name other than the encoder's own file and callerFilename, and
\* undefined when the stack has no such frame; never a frame of the encoder,
\* of the caller file, or one without a file name.
EligibleFrames ==
    {i \in 1..Len(decoration.stack) :
        decoration.stack[i] \notin {"null", CommonFile, decoration.callerFilename}}
CallerFileResult ==
    origin # "pending" =>
        /\ origin \notin {"null", CommonFile, decoration.callerFilename}
        /\ IF EligibleFrames = {} THEN origin = "undefined"
           ELSE \E i \in EligibleFrames :
                   /\ \A j \in EligibleFrames : i <= j
                   /\ origin = decoration.stack[i]

CallerFileResultWitness ==
    /\ Len(decoration.stack) = 3
    /\ decoration.stack[1] = CommonFile
    /\ decoration.stack[2] = decoration.callerFilename
    /\ decoration.stack[3] = "example.service"
    /\ origin = "example.service"

\* C30 - interception is idempotent: a run of onModuleInit after the first
\* leaves every stub, and the outcome of the scan, as they were; no property is
\* assigned a second stub, for static providers (own property) and for a
\* request-scoped class registered in two wrappers (shared prototype); and a
\* call of a marked method made after a repeated scan goes to the pool with
\* exactly one submission and none from inside the worker.
CallMadeAs(c) == Len(calls) = c - 1 /\ Len(calls') = c
InterceptionIdempotent ==
    /\ [][(scans >= 1 /\ scans' = scans + 1) =>
             (stubs' = stubs /\ initState' = initState /\ initError' = initError)]_vars
    /\ [](\A pm \in Methods : Patches(stubs[pm]) <= 1)
    /\ [][\A c \in CallIds :
             (scans > 1 /\ CallMadeAs(c) /\ <<calls'[c].token, calls'[c].method>> \in Marked) =>
                 /\ calls'[c].via = "pool"
                 /\ tasks'[c].submitted = 1]_vars
    /\ [](\A c \in Made : tasks[c].submitted <= 1 /\ tasks[c].nestedDispatched = 0)

\* Both scans ran on the application with the class registered twice; its
\* prototype method was assigned one stub, the static provider's instance one;
\* a call through each registration of the class was submitted once and
\* resolved.
InterceptionIdempotentWitness ==
    /\ cfg.app = "alias"
    /\ scans = MaxScans
    /\ Patches(stubs[<<"RequestScopeExampleService", "pi">>]) = 1
    /\ Patches(stubs[<<"ExampleService", "pi">>]) = 1
    /\ stubs[<<"RequestScopeAlias", "pi">>] = NoStub
    /\ \E c, d \in Made :
        /\ calls[c].token = "RequestScopeAlias"
        /\ calls[d].token = "RequestScopeExampleService"
        /\ \A e \in {c, d} : /\ calls[e].status = "resolved"
                             /\ tasks[e].submitted = 1
                             /\ calls[e].envelope.providerIdentifier.tokenName =
                                    "RequestScopeExampleService"
====
